---------------------------- MODULE Spec2Model ----------------------------
(***************************************************************************)
(* Urban canopy calculator: the analysis pipeline of src/main.py and       *)
(* src/analysis.py (boundary fetch, tract fetch and cleaning, per-year     *)
(* zonal statistics, change-metric derivation, export) as a state machine, *)
(* one caller invoking one public function of the program.                 *)
(*                                                                         *)
(* Floating-point values are modelled as NaN, +inf, -inf or an exact       *)
(* rational n/d in lowest terms (rounding is abstracted, the IEEE special  *)
(* values are not).  A GeoDataFrame is a set of rows keyed by GEOID; a     *)
(* per-year column canopy_mean_<year> is the field canopy_mean applied to  *)
(* the year.                                                               *)
(***************************************************************************)
EXTENDS Integers, Sequences, FiniteSets, TLC

VARIABLES
    entry,                \* the public function the caller invoked
    pc,                   \* the position of the program
    args,                 \* the arguments of the invoked function
    warned,               \* main printed the data-range warning
    available_years,      \* analyze_city_canopy: the years analysed
    fetched,              \* requests made to the external providers
    city_boundary,        \* rows of the place lookup kept by get_city_canopy
    canopy_dataset,       \* the downloaded canopy dataset
    city_tracts,          \* the table returned by get_city_tracts
    tracts_with_stats,    \* the working table of calculate_tract_canopy_stats
    years_left,           \* the years the aggregation loop has still to process
    aggregated,           \* the years whose zonal statistics were recorded
    temp_files,           \* temporary raster files present on disk
    tracts_with_analysis, \* the table returned by calculate_mean_canopy_change
    exports,              \* output artifacts written
    exc,                  \* the exception propagating out of the entry function
    printed,              \* error messages main has printed
    label                 \* the label returned by categorize_change

vars == <<entry, pc, args, warned, available_years, fetched, city_boundary,
          canopy_dataset, city_tracts, tracts_with_stats, years_left,
          aggregated, temp_files, tracts_with_analysis, exports, exc,
          printed, label>>

---------------------------------------------------------------------------
(* Bounds of the model *)

\* the largest number of tracts in a table given to the program
MaxTracts == 2
\* requested years range over [2011 - Margin, 2021 + Margin]
Margin == 2
\* categorize_change is applied to every multiple of 1/2 in [-MaxChange, MaxChange]
MaxChange == 15
\* the largest number of years given to a direct call of calculate_tract_canopy_stats
MaxYears == 2

---------------------------------------------------------------------------
(* Floating-point values *)

Abs(n) == IF n < 0 THEN -n ELSE n

RECURSIVE GCD(_, _)
GCD(a, b) == IF b = 0 THEN a ELSE GCD(b, a % b)

NaN == [k |-> "nan", n |-> 0, d |-> 1]
PosInf == [k |-> "inf", n |-> 1, d |-> 1]
NegInf == [k |-> "inf", n |-> -1, d |-> 1]

\* the rational n/d, d # 0, in lowest terms with a positive denominator
Rat(n, d) ==
    LET g == GCD(Abs(n), Abs(d))
        s == IF d < 0 THEN -1 ELSE 1
    IN  [k |-> "num", n |-> (s * n) \div g, d |-> (s * d) \div g]

Num(n) == Rat(n, 1)

\* pd.isna
IsNaN(x) == x.k = "nan"
IsInf(x) == x.k = "inf"
IsNum(x) == x.k = "num"

FNeg(x) == IF IsNaN(x) THEN NaN ELSE [x EXCEPT !.n = -x.n]

\* a - b
FSub(a, b) ==
    IF IsNaN(a) \/ IsNaN(b) THEN NaN
    ELSE IF IsNum(a) /\ IsNum(b) THEN Rat(a.n * b.d - b.n * a.d, a.d * b.d)
    ELSE IF IsInf(a) /\ IsInf(b) THEN (IF a.n = b.n THEN NaN ELSE a)
    ELSE IF IsInf(a) THEN a
    ELSE FNeg(b)

\* a * b
FMul(a, b) ==
    IF IsNaN(a) \/ IsNaN(b) THEN NaN
    ELSE IF IsNum(a) /\ IsNum(b) THEN Rat(a.n * b.n, a.d * b.d)
    ELSE IF a.n = 0 \/ b.n = 0 THEN NaN
    ELSE IF (a.n > 0) = (b.n > 0) THEN PosInf ELSE NegInf

\* a / b: a division by zero is no error, it gives an infinity, and 0/0 gives NaN
FDiv(a, b) ==
    IF IsNaN(a) \/ IsNaN(b) THEN NaN
    ELSE IF IsInf(a) /\ IsInf(b) THEN NaN
    ELSE IF IsInf(b) THEN Num(0)
    ELSE IF b.n = 0
         THEN (IF a.n = 0 THEN NaN ELSE IF a.n > 0 THEN PosInf ELSE NegInf)
    ELSE IF IsInf(a) THEN (IF (a.n > 0) = (b.n > 0) THEN PosInf ELSE NegInf)
    ELSE Rat(a.n * b.d, a.d * b.n)

\* a < b: every comparison with NaN is false
FLt(a, b) ==
    IF IsNaN(a) \/ IsNaN(b) THEN FALSE
    ELSE IF IsNum(a) /\ IsNum(b) THEN a.n * b.d < b.n * a.d
    ELSE IF IsInf(a) /\ IsInf(b) THEN a.n < b.n
    ELSE IF IsInf(a) THEN a.n < 0
    ELSE b.n > 0

---------------------------------------------------------------------------
(* Change classification and change-metric derivation *)

Labels == {"No Data", "Major Loss", "Moderate Loss", "Stable",
           "Moderate Gain", "Major Gain"}

\* categorize_change with the missing-value test left out
categorize_change_nonan(pct_change) ==
    IF FLt(pct_change, Num(-5)) THEN "Major Loss"
    ELSE IF FLt(pct_change, Num(-2)) THEN "Moderate Loss"
    ELSE IF FLt(pct_change, Num(2)) THEN "Stable"
    ELSE IF FLt(pct_change, Num(5)) THEN "Moderate Gain"
    ELSE "Major Gain"

\* categorize_change with <= in place of < at every boundary
categorize_change_closed(pct_change) ==
    IF IsNaN(pct_change) THEN "No Data"
    ELSE IF ~FLt(Num(-5), pct_change) THEN "Major Loss"
    ELSE IF ~FLt(Num(-2), pct_change) THEN "Moderate Loss"
    ELSE IF ~FLt(Num(2), pct_change) THEN "Stable"
    ELSE IF ~FLt(Num(5), pct_change) THEN "Moderate Gain"
    ELSE "Major Gain"

categorize_change(pct_change) ==
    IF IsNaN(pct_change) THEN "No Data"
    ELSE IF FLt(pct_change, Num(-5)) THEN "Major Loss"
    ELSE IF FLt(pct_change, Num(-2)) THEN "Moderate Loss"
    ELSE IF FLt(pct_change, Num(2)) THEN "Stable"
    ELSE IF FLt(pct_change, Num(5)) THEN "Moderate Gain"
    ELSE "Major Gain"

---------------------------------------------------------------------------
(* Geometries and tables *)

WGS84 == "EPSG:4326"
UTM == "UTM"

\* the area threshold of get_city_tracts, in square metres of the projected geometry
AREA_THRESHOLD == 100

\* geometry.area: the area in the units of the geometry's own reference system;
\* in degrees a tract's area is a small fraction of a unit
GeomArea(g) == IF g.crs = UTM THEN g.area_m2 ELSE 0

\* GeoDataFrame.to_crs: every geometry re-expressed in the reference system crs
to_crs(tbl, crs) == {[r EXCEPT !.geometry.crs = crs] : r \in tbl}

Geom(t, e, v, a) ==
    [gtype |-> t, is_empty |-> e, is_valid |-> v, area_m2 |-> a, crs |-> WGS84]

PolygonOK == Geom("Polygon", FALSE, TRUE, 5000)
MultiPolygonOK == Geom("MultiPolygon", FALSE, TRUE, 9000)
PolygonSliver == Geom("Polygon", FALSE, TRUE, AREA_THRESHOLD)
PolygonEmpty == Geom("Polygon", TRUE, TRUE, 0)
LineStringGeom == Geom("LineString", FALSE, TRUE, 0)
PolygonInvalid == Geom("Polygon", FALSE, FALSE, 3000)

Geoms == {PolygonOK, MultiPolygonOK, PolygonSliver, PolygonEmpty,
          LineStringGeom, PolygonInvalid}

IsPolygonal(g) == g.gtype \in {"Polygon", "MultiPolygon"}

\* the geometry the specification asks of every tract
CleanGeom(g) ==
    /\ IsPolygonal(g)
    /\ ~g.is_empty
    /\ g.is_valid
    /\ g.area_m2 > AREA_THRESHOLD

\* the cleaning with the validity test left out
clean_geometries_novalid(tbl) ==
    LET nonempty == {r \in tbl : ~r.geometry.is_empty}
    IN  {r \in nonempty : IsPolygonal(r.geometry)}

\* get_city_tracts, "CLEAN GEOMETRIES"
clean_geometries(tbl) ==
    LET nonempty == {r \in tbl : ~r.geometry.is_empty}
        polygons == {r \in nonempty : IsPolygonal(r.geometry)}
    IN  {r \in polygons : r.geometry.is_valid}

\* the area filter of get_city_tracts with the area taken without projecting
area_filter_unprojected(tbl) ==
    {r \in tbl : GeomArea(r.geometry) > AREA_THRESHOLD}

\* get_city_tracts: project, keep the areas above the threshold, project back
area_filter(tbl) ==
    LET city_tracts_projected == to_crs(tbl, UTM)
        kept == {r \in city_tracts_projected :
                    GeomArea(r.geometry) > AREA_THRESHOLD}
    IN  to_crs(kept, WGS84)

\* the stage filter with the validity test left out
polygon_check_only(tbl) == {r \in tbl : IsPolygonal(r.geometry)}

\* calculate_tract_canopy_stats, "DEFENSIVE CHECK"
defensive_check(tbl) ==
    LET polygons == {r \in tbl : IsPolygonal(r.geometry)}
    IN  {r \in polygons : r.geometry.is_valid}

\* calculate_mean_canopy_change, "FINAL SAFETY CHECK"
final_safety_check(tbl) ==
    LET polygons == {r \in tbl : IsPolygonal(r.geometry)}
    IN  {r \in polygons : r.geometry.is_valid}

---------------------------------------------------------------------------
(* calculate_mean_canopy_change *)

\* pixel_to_acres = 0.222
pixel_to_acres == Rat(222, 1000)

\* the absolute change with the operands exchanged
absolute_change_swapped(r, start_year, end_year) ==
    FSub(r.canopy_mean[start_year], r.canopy_mean[end_year])

\* canopy_change_pct of one row
absolute_change(r, start_year, end_year) ==
    FSub(r.canopy_mean[end_year], r.canopy_mean[start_year])

\* Series.replace(0, np.nan) left out
replace_zero_omitted(x) == x

\* Series.replace(0, np.nan) on one value
replace_zero(x) == IF IsNum(x) /\ x.n = 0 THEN NaN ELSE x

\* canopy_change_relative of one row
relative_change(change, start_mean) ==
    FMul(FDiv(change, replace_zero(start_mean)), Num(100))

\* the acreage with the division of the percentage by 100 left out
canopy_acres_percent(r, year) ==
    FMul(FMul(r.canopy_mean[year], Num(r.canopy_pixels[year])), pixel_to_acres)

\* canopy_acres_<year> of one row
canopy_acres(r, year) ==
    FMul(FMul(FDiv(r.canopy_mean[year], Num(100)), Num(r.canopy_pixels[year])),
         pixel_to_acres)

change_row(r, start_year, end_year) ==
    LET change == absolute_change(r, start_year, end_year)
        acres == [y \in {start_year, end_year} |-> canopy_acres(r, y)]
    IN  r @@ [canopy_change_pct |-> change,
              canopy_change_relative |->
                  relative_change(change, r.canopy_mean[start_year]),
              change_category |-> categorize_change(change),
              canopy_acres |-> acres,
              canopy_acres_change |-> FSub(acres[end_year], acres[start_year])]

calculate_mean_canopy_change(tracts_gdf, start_year, end_year) ==
    {change_row(r, start_year, end_year) : r \in final_safety_check(tracts_gdf)}

---------------------------------------------------------------------------
(* The state before the invoked function has done anything *)

NoExc == [type |-> "none", msg |-> <<>>]
NoDataset == [name |-> "none", years |-> {}]

Fresh ==
    /\ warned = FALSE
    /\ available_years = <<>>
    /\ fetched = {}
    /\ city_boundary = {}
    /\ canopy_dataset = NoDataset
    /\ city_tracts = {}
    /\ tracts_with_stats = {}
    /\ years_left = <<>>
    /\ aggregated = <<>>
    /\ temp_files = {}
    /\ tracts_with_analysis = {}
    /\ exports = {}
    /\ exc = NoExc
    /\ printed = <<>>
    /\ label = "none"

---------------------------------------------------------------------------
(* A call of categorize_change on one value *)

ChangeValues ==
    {NaN} \cup {Rat(k, 2) : k \in (-2 * MaxChange)..(2 * MaxChange)}

InitClassify ==
    /\ entry = "categorize_change"
    /\ pc = "call"
    /\ args \in [pct_change : ChangeValues]
    /\ Fresh

CallCategorizeChange ==
    /\ entry = "categorize_change"
    /\ pc = "call"
    /\ label' = categorize_change(args.pct_change)
    /\ pc' = "returned"
    /\ UNCHANGED <<entry, args, warned, available_years, fetched,
                   city_boundary, canopy_dataset, city_tracts,
                   tracts_with_stats, years_left, aggregated, temp_files,
                   tracts_with_analysis, exports, exc, printed>>

NextClassify == CallCategorizeChange

SpecClassify == InitClassify /\ [][NextClassify]_vars

---------------------------------------------------------------------------
(* A direct call of calculate_mean_canopy_change on a table with statistics *)

\* the tables of the tracts 1..n, the row of tract g taken from rows[g] or absent
RECURSIVE TablesUpTo(_, _)
TablesUpTo(rows, n) ==
    IF n = 0 THEN {{}}
    ELSE {t \cup x : t \in TablesUpTo(rows, n - 1),
                     x \in {{}} \cup {{r} : r \in rows[n]}}

\* the tables with at most MaxTracts rows
Tables(rows) == TablesUpTo(rows, MaxTracts)

MeanValues == {NaN, Num(0), Num(5), Num(10), Num(40), Num(45)}

YearPairs == {<<2011, 2021>>, <<2016, 2019>>}

\* the rows a caller may give for tract g: a clean polygon with any means, or
\* any other geometry with the means 10 and 5
StatRows(g, start_year, end_year) ==
    {[GEOID |-> g, geometry |-> PolygonOK,
      canopy_mean |-> (start_year :> ms) @@ (end_year :> me),
      canopy_pixels |-> (start_year :> 100) @@ (end_year :> 100)] :
        ms \in MeanValues, me \in MeanValues}
    \cup
    {[GEOID |-> g, geometry |-> geom,
      canopy_mean |-> (start_year :> Num(10)) @@ (end_year :> Num(5)),
      canopy_pixels |-> (start_year :> 100) @@ (end_year :> 100)] :
        geom \in Geoms \ {PolygonOK}}

InitChange ==
    /\ entry = "calculate_mean_canopy_change"
    /\ pc = "call"
    /\ \E yp \in YearPairs :
          \E tbl \in Tables([g \in 1..MaxTracts |-> StatRows(g, yp[1], yp[2])]) :
              args = [tracts_gdf |-> tbl, start_year |-> yp[1],
                      end_year |-> yp[2]]
    /\ Fresh

CallCalculateMeanCanopyChange ==
    /\ entry = "calculate_mean_canopy_change"
    /\ pc = "call"
    /\ tracts_with_analysis' =
           calculate_mean_canopy_change(args.tracts_gdf, args.start_year,
                                        args.end_year)
    /\ pc' = "returned"
    /\ UNCHANGED <<entry, args, warned, available_years, fetched,
                   city_boundary, canopy_dataset, city_tracts,
                   tracts_with_stats, years_left, aggregated, temp_files,
                   exports, exc, printed, label>>

NextChange == CallCalculateMeanCanopyChange

SpecChange == InitChange /\ [][NextChange]_vars

---------------------------------------------------------------------------
(* A direct call of calculate_mean_canopy_change on means and pixel counts *)

AcreMeans == {NaN, Num(50), Rat(25, 2)}
AcrePixels == {0, 100}

AcreRows(g) ==
    {[GEOID |-> g, geometry |-> PolygonOK,
      canopy_mean |-> (2011 :> ms) @@ (2021 :> me),
      canopy_pixels |-> (2011 :> ps) @@ (2021 :> pe)] :
        ms \in AcreMeans, me \in AcreMeans, ps \in AcrePixels, pe \in AcrePixels}

InitAcres ==
    /\ entry = "calculate_mean_canopy_change"
    /\ pc = "call"
    /\ \E tbl \in Tables([g \in 1..MaxTracts |-> AcreRows(g)]) :
          args = [tracts_gdf |-> tbl, start_year |-> 2011, end_year |-> 2021]
    /\ Fresh

SpecAcres == InitAcres /\ [][NextChange]_vars

---------------------------------------------------------------------------
(* The external data: places, census tracts and the canopy raster *)

\* np.arange(2011, 2022): the years with NLCD canopy data
NLCD_START == 2011
NLCD_STOP == 2022
\* the range main warns about
WARN_FIRST == 2011
WARN_LAST == 2021

NLCDYears == NLCD_START..(NLCD_STOP - 1)
RequestYears == (NLCD_START - Margin)..(NLCD_STOP - 1 + Margin)

\* the places of a state known to the boundary provider
Places(state_abbr) == IF state_abbr = "OR" THEN {"Portland", "Salem"} ELSE {}

\* str.title and str.upper on the names the model uses
title(s) ==
    CASE s = "portland" -> "Portland"
      [] s = "atlantis" -> "Atlantis"
      [] OTHER -> s

upper(s) ==
    CASE s = "or" -> "OR"
      [] OTHER -> s

\* the census tracts of the state: geometry, and the number of raster cells
\* with a valid value that fall inside the tract
Tract(g, geom, cells) == [GEOID |-> g, geometry |-> geom, cells |-> cells]

StateTracts ==
    {Tract(1, PolygonOK, 4), Tract(2, MultiPolygonOK, 100),
     Tract(3, PolygonOK, 0), Tract(4, PolygonSliver, 1),
     Tract(5, PolygonEmpty, 0), Tract(6, LineStringGeom, 0),
     Tract(7, PolygonInvalid, 4)}

\* the tables of at most MaxTracts census tracts
TractTables == {t \in SUBSET StateTracts : Cardinality(t) <= MaxTracts}

\* the canopy percentage of the cells of tract g in a year
canopy_value(g, year) ==
    CASE g = 1 -> Rat(20 - (year - NLCD_START), 2)
      [] g = 2 -> Rat(80 + (year - NLCD_START), 2)
      [] OTHER -> Num(0)

None == [k |-> "none", n |-> 0, d |-> 1]

\* rasterstats.zonal_stats for one feature: every statistic is None and the
\* count 0 when no valid cell falls inside the feature
zonal_stats(r, year) ==
    IF r.cells = 0
    THEN [mean |-> None, min |-> None, max |-> None, std |-> None,
          count |-> Num(0)]
    ELSE LET v == canopy_value(r.GEOID, year)
         IN  [mean |-> v, min |-> v, max |-> v, std |-> Num(0),
              count |-> Num(r.cells)]

---------------------------------------------------------------------------
(* calculate_tract_canopy_stats: the columns of one year *)

\* a missing statistic recorded as the number 0
none_as_zero(x) == IF x = None THEN Num(0) ELSE x

\* s[stat] if s[stat] is not None else np.nan
none_to_nan(x) == IF x = None THEN NaN ELSE x

\* s['count'] if s['count'] is not None else 0
count_or_zero(x) == IF x = None THEN 0 ELSE x.n

NoColumn == [y \in {} |-> y]

Column(r, name) == IF name \in DOMAIN r THEN r[name] ELSE NoColumn

add_year_stats(r, year) ==
    LET s == zonal_stats(r, year)
    IN  [canopy_mean |-> (year :> none_to_nan(s.mean)) @@ Column(r, "canopy_mean"),
         canopy_min |-> (year :> none_to_nan(s.min)) @@ Column(r, "canopy_min"),
         canopy_max |-> (year :> none_to_nan(s.max)) @@ Column(r, "canopy_max"),
         canopy_std |-> (year :> none_to_nan(s.std)) @@ Column(r, "canopy_std"),
         canopy_pixels |-> (year :> count_or_zero(s.count)) @@ Column(r, "canopy_pixels")]
        @@ r

TempFile(year) == <<"temp_canopy", year, "tif">>

---------------------------------------------------------------------------
(* Exceptions *)

ValueError(msg) == [type |-> "ValueError", msg |-> msg]
RuntimeError(msg) == [type |-> "RuntimeError", msg |-> msg]
SystemExit(msg) == [type |-> "SystemExit", msg |-> msg]

\* where an exception raised inside the invoked function goes: into the
\* except clause of main, or out to the caller
RaisedTo == IF entry = "main" THEN "main_except" ELSE "raised"

\* the arguments analyze_city_canopy runs with
AnalyzeArgs ==
    IF entry = "main"
    THEN [city_name |-> title(args.city), state_abbr |-> upper(args.state),
          start_year |-> args.start_year, end_year |-> args.end_year,
          export |-> ~args.no_export]
    ELSE args

---------------------------------------------------------------------------
(* The command surface and the pipeline of analyze_city_canopy *)

InitMain ==
    /\ entry = "main"
    /\ pc = "main"
    /\ args \in [city : {"portland", "atlantis"}, state : {"or"},
                 start_year : RequestYears, end_year : RequestYears,
                 no_export : BOOLEAN]
    /\ Fresh

InitAnalyze ==
    /\ entry = "analyze_city_canopy"
    /\ pc = "analyze"
    /\ args \in [city_name : {"Portland", "Atlantis"}, state_abbr : {"OR"},
                 start_year : RequestYears, end_year : RequestYears,
                 export : BOOLEAN]
    /\ Fresh

\* the year test with > in place of >=
rejects_years_strict(start_year, end_year) == start_year > end_year

\* if args.start_year >= args.end_year: parser.error(...)
rejects_years(start_year, end_year) == start_year >= end_year

\* main: the year validation after parsing; parser.error prints the usage and
\* exits before the analysis starts
MainValidate ==
    /\ entry = "main"
    /\ pc = "main"
    /\ warned' = (args.start_year < WARN_FIRST \/ args.end_year > WARN_LAST)
    /\ IF rejects_years(args.start_year, args.end_year)
       THEN /\ exc' = SystemExit(<<"--start-year must be less than --end-year">>)
            /\ pc' = "exit"
       ELSE /\ exc' = exc
            /\ pc' = "analyze"
    /\ UNCHANGED <<entry, args, available_years, fetched, city_boundary,
                  canopy_dataset, city_tracts, tracts_with_stats,
                  years_left, aggregated, temp_files,
                  tracts_with_analysis, exports, printed, label>>

\* range(start_year, end_year + 1)
YearRange(start_year, end_year) ==
    [i \in 1..(end_year - start_year + 1) |-> start_year + i - 1]

\* the years kept with the upper end of the data range left open
available_mutant(start_year, end_year) ==
    SelectSeq(YearRange(start_year, end_year), LAMBDA y : y >= NLCD_START)

\* [y for y in years if y in np.arange(2011, 2022)]
available(start_year, end_year) ==
    SelectSeq(YearRange(start_year, end_year),
              LAMBDA y : y >= NLCD_START /\ y < NLCD_STOP)

\* analyze_city_canopy: the years to analyse
AnalyzeYears ==
    /\ entry \in {"main", "analyze_city_canopy"}
    /\ pc = "analyze"
    /\ LET a == AnalyzeArgs
           avail == available(a.start_year, a.end_year)
       IN  IF Len(avail) = 0
           THEN /\ exc' = ValueError(<<"No NLCD data available for years",
                                       a.start_year, a.end_year>>)
                /\ pc' = RaisedTo
                /\ available_years' = available_years
           ELSE /\ available_years' = avail
                /\ pc' = "get_city_canopy"
                /\ exc' = exc
    /\ UNCHANGED <<entry, args, warned, fetched, city_boundary,
                  canopy_dataset, city_tracts, tracts_with_stats,
                  years_left, aggregated, temp_files,
                  tracts_with_analysis, exports, printed, label>>

\* the lookup with the filter on the place name left out
place_lookup_by_state(city_name, state_abbr) == Places(state_abbr)

\* places(state=state_abbr) filtered on NAME == city_name
place_lookup(city_name, state_abbr) ==
    {name \in Places(state_abbr) : name = city_name}

\* step 1: get_city_canopy
GetCityCanopy ==
    /\ pc = "get_city_canopy"
    /\ LET a == AnalyzeArgs
           city == place_lookup(a.city_name, a.state_abbr)
       IN  IF city = {}
           THEN /\ fetched' = fetched \cup {"places"}
                /\ exc' = ValueError(<<"City not found", a.city_name,
                                       a.state_abbr>>)
                /\ pc' = RaisedTo
                /\ UNCHANGED <<city_boundary, canopy_dataset>>
           ELSE /\ fetched' = fetched \cup {"places", "nlcd"}
                /\ city_boundary' = city
                /\ canopy_dataset' =
                       [name |-> "canopy",
                        years |-> {available_years[i] :
                                      i \in 1..Len(available_years)}]
                /\ pc' = "get_city_tracts"
                /\ exc' = exc
    /\ UNCHANGED <<entry, args, warned, available_years, city_tracts,
                  tracts_with_stats, years_left, aggregated, temp_files,
                  tracts_with_analysis, exports, printed, label>>

\* get_city_tracts on the tracts that intersect the city boundary
get_city_tracts(hit) == area_filter(clean_geometries(hit))

\* step 2: get_city_tracts.  estimate_utm_crs on a table the cleaning left
\* empty may fail or go on; both outcomes are kept
GetCityTracts ==
    /\ pc = "get_city_tracts"
    /\ fetched' = fetched \cup {"tracts"}
    /\ \E hit \in TractTables \ {{}} :
          \/ /\ city_tracts' = get_city_tracts(hit)
             /\ pc' = "stats_begin"
             /\ exc' = exc
          \/ /\ clean_geometries(hit) = {}
             /\ exc' = RuntimeError(<<"Unable to determine UTM CRS">>)
             /\ pc' = RaisedTo
             /\ city_tracts' = city_tracts
    /\ UNCHANGED <<entry, args, warned, available_years, city_boundary,
                  canopy_dataset, tracts_with_stats, years_left,
                  aggregated, temp_files, tracts_with_analysis, exports,
                  printed, label>>

---------------------------------------------------------------------------
(* calculate_tract_canopy_stats, called by the pipeline or directly *)

DirectYears == {2011, 2016, 2021}

\* the lists of at most MaxYears distinct years
YearLists ==
    UNION {{ys \in [1..n -> DirectYears] :
               \A i, j \in 1..n : i # j => ys[i] # ys[j]} : n \in 0..MaxYears}

InitStats ==
    /\ entry = "calculate_tract_canopy_stats"
    /\ pc = "stats_begin"
    /\ args \in [tracts_gdf : TractTables, years : YearLists]
    /\ warned = FALSE
    /\ available_years = <<>>
    /\ fetched = {}
    /\ city_boundary = {}
    /\ canopy_dataset = [name |-> "canopy", years |-> NLCDYears]
    /\ city_tracts = {}
    /\ tracts_with_stats = {}
    /\ years_left = <<>>
    /\ aggregated = <<>>
    /\ temp_files = {}
    /\ tracts_with_analysis = {}
    /\ exports = {}
    /\ exc = NoExc
    /\ printed = <<>>
    /\ label = "none"

\* the table and the years calculate_tract_canopy_stats is given
StatsInput ==
    IF entry = "calculate_tract_canopy_stats"
    THEN [tracts_gdf |-> args.tracts_gdf, years |-> args.years]
    ELSE [tracts_gdf |-> city_tracts, years |-> available_years]

\* the copy of the table and the defensive check
StatsBegin ==
    /\ pc = "stats_begin"
    /\ tracts_with_stats' = defensive_check(StatsInput.tracts_gdf)
    /\ years_left' = StatsInput.years
    /\ pc' = "stats_loop"
    /\ UNCHANGED <<entry, args, warned, available_years, fetched,
                  city_boundary, canopy_dataset, city_tracts, aggregated,
                  temp_files, tracts_with_analysis, exports, exc,
                  printed, label>>

\* an iteration of the loop, up to canopy.rio.to_raster(temp_file); a write
\* that fails may leave a partial file
WriteTempRaster ==
    /\ pc = "stats_loop"
    /\ years_left # <<>>
    /\ LET year == Head(years_left)
       IN  \/ /\ temp_files' = temp_files \cup {TempFile(year)}
              /\ pc' = "stats_zonal"
              /\ exc' = exc
           \/ /\ \E partial \in BOOLEAN :
                    temp_files' = IF partial
                                  THEN temp_files \cup {TempFile(year)}
                                  ELSE temp_files
              /\ exc' = [type |-> "RasterioIOError",
                         msg |-> <<"to_raster failed", year>>]
              /\ pc' = RaisedTo
    /\ UNCHANGED <<entry, args, warned, available_years, fetched,
                  city_boundary, canopy_dataset, city_tracts,
                  tracts_with_stats, years_left, aggregated,
                  tracts_with_analysis, exports, printed, label>>

\* zonal_stats raising, caught inside the loop, the year skipped
zonal_failure_skipped(year) ==
    /\ years_left' = Tail(years_left)
    /\ pc' = "stats_loop"
    /\ UNCHANGED <<tracts_with_stats, aggregated, temp_files, exc>>

\* the rest of the iteration when zonal_stats raises: nothing after the call runs
zonal_failure(year) ==
    /\ exc' = [type |-> "RasterioIOError", msg |-> <<"zonal_stats failed", year>>]
    /\ pc' = RaisedTo
    /\ UNCHANGED <<tracts_with_stats, aggregated, years_left, temp_files>>

\* the rest of the iteration: zonal_stats, the five columns, os.remove(temp_file)
ZonalStats ==
    /\ pc = "stats_zonal"
    /\ LET year == Head(years_left)
       IN  \/ /\ tracts_with_stats' =
                     {add_year_stats(r, year) : r \in tracts_with_stats}
              /\ temp_files' = temp_files \ {TempFile(year)}
              /\ aggregated' = Append(aggregated, year)
              /\ years_left' = Tail(years_left)
              /\ pc' = "stats_loop"
              /\ exc' = exc
           \/ zonal_failure(year)
    /\ UNCHANGED <<entry, args, warned, available_years, fetched,
                  city_boundary, canopy_dataset, city_tracts,
                  tracts_with_analysis, exports, printed, label>>

\* return tracts_with_stats
StatsReturn ==
    /\ pc = "stats_loop"
    /\ years_left = <<>>
    /\ pc' = IF entry = "calculate_tract_canopy_stats" THEN "returned"
             ELSE "change"
    /\ UNCHANGED <<entry, args, warned, available_years, fetched,
                  city_boundary, canopy_dataset, city_tracts,
                  tracts_with_stats, years_left, aggregated, temp_files,
                  tracts_with_analysis, exports, exc, printed, label>>

---------------------------------------------------------------------------
(* The rest of analyze_city_canopy and of main *)

\* step 4 and the summary: calculate_mean_canopy_change on the first and the
\* last analysed year
AnalyzeChange ==
    /\ pc = "change"
    /\ tracts_with_analysis' =
           calculate_mean_canopy_change(
               tracts_with_stats, available_years[1],
               available_years[Len(available_years)])
    /\ pc' = "export"
    /\ UNCHANGED <<entry, args, warned, available_years, fetched,
                  city_boundary, canopy_dataset, city_tracts,
                  tracts_with_stats, years_left, aggregated, temp_files,
                  exports, exc, printed, label>>

\* yearly maps written for the first and the last year alone
create_yearly_canopy_maps_ends(years) ==
    {<<"canopy_map", years[i], "html">> : i \in {1, Len(years)}}

\* create_yearly_canopy_maps: canopy_map_<year>.html for each year of years
create_yearly_canopy_maps(years) ==
    {<<"canopy_map", years[i], "html">> : i \in 1..Len(years)}

\* the legend of the change map: "<category> (<count>)" for every category of
\* category_colors that has a tract among the polygon-typed rows
change_legend(tracts_gdf) ==
    LET tracts_clean == {r \in tracts_gdf : IsPolygonal(r.geometry)}
        count(category) ==
            Cardinality({r \in tracts_clean : r.change_category = category})
    IN  {<<category, count(category)>> :
            category \in {c \in Labels : count(c) > 0}}

\* create_change_map: canopy_change_map_<start>_<end>.html with its legend
create_change_map(tracts_gdf, start_year, end_year) ==
    <<"canopy_change_map", start_year, end_year, "html",
      change_legend(tracts_gdf)>>

export_shapefiles(start_year, end_year) ==
    {<<"boundary", "shp">>, <<"tracts", start_year, end_year, "shp">>}

export_geodataframe(start_year, end_year) ==
    {<<"complete", start_year, end_year, fmt>> :
        fmt \in {"gpkg", "geojson", "csv"}}

\* the artifacts of export_all_outputs
export_all_outputs(tracts_gdf, start_year, end_year, years) ==
    create_yearly_canopy_maps(years)
    \cup {create_change_map(tracts_gdf, start_year, end_year)}
    \cup export_shapefiles(start_year, end_year)
    \cup export_geodataframe(start_year, end_year)

\* step 6 and the return of analyze_city_canopy
AnalyzeExport ==
    /\ pc = "export"
    /\ exports' =
           IF AnalyzeArgs.export
           THEN exports \cup
                export_all_outputs(tracts_with_analysis, available_years[1],
                                   available_years[Len(available_years)],
                                   available_years)
           ELSE exports
    /\ pc' = IF entry = "main" THEN "main_complete" ELSE "returned"
    /\ UNCHANGED <<entry, args, warned, available_years, fetched,
                  city_boundary, canopy_dataset, city_tracts,
                  tracts_with_stats, years_left, aggregated, temp_files,
                  tracts_with_analysis, exc, printed, label>>

\* main after the analysis returned (the optional plot only displays)
MainComplete ==
    /\ entry = "main"
    /\ pc = "main_complete"
    /\ pc' = "done"
    /\ UNCHANGED <<entry, args, warned, available_years, fetched,
                  city_boundary, canopy_dataset, city_tracts,
                  tracts_with_stats, years_left, aggregated, temp_files,
                  tracts_with_analysis, exports, exc, printed, label>>

\* the handler with the raise left out
main_except_swallow == "done"

\* where the except clause of main ends: raise
main_except_end == "raised"

\* main: except Exception as e: print the message, raise
MainExcept ==
    /\ entry = "main"
    /\ pc = "main_except"
    /\ printed' = Append(printed, exc.msg)
    /\ pc' = main_except_end
    /\ UNCHANGED <<entry, args, warned, available_years, fetched,
                  city_boundary, canopy_dataset, city_tracts,
                  tracts_with_stats, years_left, aggregated, temp_files,
                  tracts_with_analysis, exports, exc, label>>

---------------------------------------------------------------------------
(* A direct call of calculate_mean_canopy_change on tracts of the state *)

\* the census tracts with the statistics of the two years
InitChangeTracts ==
    /\ entry = "calculate_mean_canopy_change"
    /\ pc = "call"
    /\ \E yp \in YearPairs :
          \E tbl \in TractTables :
              args = [tracts_gdf |->
                          {add_year_stats(add_year_stats(r, yp[1]), yp[2]) :
                              r \in tbl},
                      start_year |-> yp[1], end_year |-> yp[2]]
    /\ Fresh

Init == InitMain \/ InitAnalyze \/ InitStats \/ InitChangeTracts

Next ==
    \/ MainValidate
    \/ AnalyzeYears
    \/ GetCityCanopy
    \/ GetCityTracts
    \/ StatsBegin
    \/ WriteTempRaster
    \/ ZonalStats
    \/ StatsReturn
    \/ AnalyzeChange
    \/ AnalyzeExport
    \/ MainComplete
    \/ MainExcept
    \/ CallCalculateMeanCanopyChange

Spec == Init /\ [][Next]_vars

---------------------------------------------------------------------------
(* C1: categorize_change returns exactly one of the six labels for every
   value; a missing value gives 'No Data', and a defined value v gives the
   label of the one bucket among v < -5, -5 <= v < -2, -2 <= v < 2,
   2 <= v < 5, v >= 5 that holds it. *)
BucketOf(v) ==
    {b \in Labels \ {"No Data"} :
        \/ b = "Major Loss" /\ v.n < -5 * v.d
        \/ b = "Moderate Loss" /\ -5 * v.d <= v.n /\ v.n < -2 * v.d
        \/ b = "Stable" /\ -2 * v.d <= v.n /\ v.n < 2 * v.d
        \/ b = "Moderate Gain" /\ 2 * v.d <= v.n /\ v.n < 5 * v.d
        \/ b = "Major Gain" /\ v.n >= 5 * v.d}

C1_ClassifyTotal ==
    (entry = "categorize_change" /\ pc = "returned") =>
        /\ label \in Labels
        /\ IsNaN(args.pct_change) <=> label = "No Data"
        /\ IsNum(args.pct_change) => BucketOf(args.pct_change) = {label}

C1_Witness ==
    /\ entry = "categorize_change"
    /\ pc = "returned"
    /\ IsNaN(args.pct_change)
    /\ label = "No Data"

(* C2 as stated: a change of exactly -5 is 'Moderate Loss', and a change of
   exactly -2 and of exactly 2 are both 'Stable'. *)
C2_AsStated ==
    (entry = "categorize_change" /\ pc = "returned") =>
        /\ args.pct_change = Num(-5) => label = "Moderate Loss"
        /\ args.pct_change = Num(-2) => label = "Stable"
        /\ args.pct_change = Num(2) => label = "Stable"

(* C2 amended: every bucket holds its lower boundary: a change of exactly -5
   is 'Moderate Loss', of exactly -2 'Stable', of exactly 2 'Moderate Gain'
   and of exactly 5 'Major Gain'. *)
C2_BoundaryLabels ==
    (entry = "categorize_change" /\ pc = "returned") =>
        /\ args.pct_change = Num(-5) => label = "Moderate Loss"
        /\ args.pct_change = Num(-2) => label = "Stable"
        /\ args.pct_change = Num(2) => label = "Moderate Gain"
        /\ args.pct_change = Num(5) => label = "Major Gain"

C2_Witness ==
    /\ entry = "categorize_change"
    /\ pc = "returned"
    /\ args.pct_change = Num(2)
    /\ label = "Moderate Gain"

(* C9: every row returned by calculate_mean_canopy_change has the absolute
   change end-year mean minus start-year mean, undefined when either mean is
   undefined, and the category that classifies that change; start-year means
   10 and 40 with end-year means 5 and 45 give the changes -5 and 5 and the
   categories 'Moderate Loss' and 'Major Gain'. *)
ChangeReturned == entry = "calculate_mean_canopy_change" /\ pc = "returned"

StartMean(r) == r.canopy_mean[args.start_year]
EndMean(r) == r.canopy_mean[args.end_year]

\* x is the number a - b, for numbers a and b
IsDifference(x, a, b) ==
    /\ IsNum(x)
    /\ x.n * a.d * b.d = (a.n * b.d - b.n * a.d) * x.d

ExpectedCategory(x) ==
    IF IsNaN(x) THEN {"No Data"} ELSE BucketOf(x)

C9_AbsoluteChange ==
    ChangeReturned =>
        \A r \in tracts_with_analysis :
            /\ (IsNaN(StartMean(r)) \/ IsNaN(EndMean(r)))
                   => IsNaN(r.canopy_change_pct)
            /\ (IsNum(StartMean(r)) /\ IsNum(EndMean(r)))
                   => IsDifference(r.canopy_change_pct, EndMean(r), StartMean(r))
            /\ ExpectedCategory(r.canopy_change_pct) = {r.change_category}
            /\ (StartMean(r) = Num(10) /\ EndMean(r) = Num(5))
                   => /\ r.canopy_change_pct = Num(-5)
                      /\ r.change_category = "Moderate Loss"
            /\ (StartMean(r) = Num(40) /\ EndMean(r) = Num(45))
                   => /\ r.canopy_change_pct = Num(5)
                      /\ r.change_category = "Major Gain"

C9_Witness ==
    /\ ChangeReturned
    /\ \E r1, r2 \in tracts_with_analysis :
          /\ r1.GEOID = 1 /\ StartMean(r1) = Num(10) /\ EndMean(r1) = Num(5)
          /\ r2.GEOID = 2 /\ StartMean(r2) = Num(40) /\ EndMean(r2) = Num(45)
          /\ r1.change_category = "Moderate Loss"
          /\ r2.change_category = "Major Gain"

(* C10: in every row returned by calculate_mean_canopy_change whose
   start-year mean is exactly zero the relative change is undefined (NaN),
   never an infinity; for a non-zero start-year mean it is the absolute
   change divided by the start-year mean, times 100. *)
C10_RelativeChange ==
    ChangeReturned =>
        \A r \in tracts_with_analysis :
            LET rel == r.canopy_change_relative
                chg == r.canopy_change_pct
                sm == StartMean(r)
            IN  /\ ~IsInf(rel)
                /\ sm = Num(0) => IsNaN(rel)
                /\ (IsNum(sm) /\ sm # Num(0)) =>
                       IF IsNaN(chg) THEN IsNaN(rel)
                       ELSE /\ IsNum(rel)
                            /\ rel.n * sm.n * chg.d = 100 * chg.n * sm.d * rel.d

C10_Witness ==
    /\ ChangeReturned
    /\ \E r \in tracts_with_analysis :
          /\ StartMean(r) = Num(0)
          /\ EndMean(r) = Num(5)
          /\ IsNaN(r.canopy_change_relative)
    /\ \E r \in tracts_with_analysis :
          /\ StartMean(r) = Num(40)
          /\ EndMean(r) = Num(45)
          /\ r.canopy_change_relative = Rat(25, 2)

(* C3 as stated: once calculate_tract_canopy_stats has returned, or a failure
   of a year's zonal aggregation has propagated out of it, no temporary
   raster file remains.  (A failure of the raster write itself, which may
   leave a partial file, is left aside.) *)
StatsLeft ==
    /\ entry \in {"main", "analyze_city_canopy", "calculate_tract_canopy_stats"}
    /\ pc \in {"returned", "change", "export", "main_complete", "done",
               "main_except", "raised"}

WriteFailed ==
    exc.type = "RasterioIOError" /\ exc.msg[1] = "to_raster failed"

C3_NoTempFileRemains == (StatsLeft /\ ~WriteFailed) => temp_files = {}

(* C4 as stated: every tract calculate_tract_canopy_stats aggregates and
   every tract calculate_mean_canopy_change classifies has a valid,
   non-empty Polygon or MultiPolygon geometry with a projected area above
   the threshold, whatever table the stage is given. *)
C4_AsStated ==
    /\ \A r \in tracts_with_stats : CleanGeom(r.geometry)
    /\ \A r \in tracts_with_analysis : CleanGeom(r.geometry)

(* C4 amended: calculate_tract_canopy_stats and calculate_mean_canopy_change
   each keep exactly the rows of their input whose geometry is a valid
   Polygon or MultiPolygon (an empty or below-threshold polygon given to
   them is kept); get_city_tracts keeps only valid, non-empty polygons with
   a projected area above the threshold, so that in the pipeline every tract
   aggregated, classified or returned has such a geometry. *)
ValidPolygons(tbl) ==
    {r.GEOID : r \in {q \in tbl : IsPolygonal(q.geometry) /\ q.geometry.is_valid}}

GEOIDs(tbl) == {r.GEOID : r \in tbl}

InPipeline == entry \in {"main", "analyze_city_canopy"}

C4_StageFilters ==
    /\ pc \in {"stats_loop", "stats_zonal", "change", "export"}
           => GEOIDs(tracts_with_stats) = ValidPolygons(StatsInput.tracts_gdf)
    /\ (InPipeline /\ pc \in {"export", "main_complete", "done", "returned"})
           => GEOIDs(tracts_with_analysis) = ValidPolygons(tracts_with_stats)
    /\ (entry = "calculate_mean_canopy_change" /\ pc = "returned")
           => GEOIDs(tracts_with_analysis) = ValidPolygons(args.tracts_gdf)
    /\ InPipeline =>
           \A r \in city_tracts \cup tracts_with_stats \cup tracts_with_analysis :
               CleanGeom(r.geometry) /\ r.geometry.crs = WGS84

C4_Witness ==
    /\ entry = "calculate_tract_canopy_stats"
    /\ pc = "returned"
    /\ \E r \in args.tracts_gdf : ~r.geometry.is_valid
    /\ \E r \in args.tracts_gdf : r.geometry.is_empty
    /\ GEOIDs(tracts_with_stats) = {5}
    /\ aggregated # <<>>

(* C5: analyze_city_canopy analyses exactly the years of start_year..end_year
   that lie in 2011..2021, in ascending order: every year downloaded,
   aggregated, mapped or used for the change is one of them; when there is
   none it raises an error before any provider is asked for data and before
   any later stage runs. *)
Intersection ==
    {y \in AnalyzeArgs.start_year..AnalyzeArgs.end_year : 2011 <= y /\ y <= 2021}

SeqSet(q) == {q[i] : i \in 1..Len(q)}

NothingDone ==
    /\ available_years = <<>>
    /\ fetched = {}
    /\ city_boundary = {}
    /\ canopy_dataset = NoDataset
    /\ city_tracts = {}
    /\ tracts_with_stats = {}
    /\ aggregated = <<>>
    /\ temp_files = {}
    /\ tracts_with_analysis = {}
    /\ exports = {}

C5_YearsRestricted ==
    (InPipeline /\ pc \notin {"main", "analyze", "exit"}) =>
        IF Intersection = {}
        THEN /\ pc \in {"main_except", "raised"}
             /\ exc = ValueError(<<"No NLCD data available for years",
                                   AnalyzeArgs.start_year, AnalyzeArgs.end_year>>)
             /\ NothingDone
        ELSE /\ SeqSet(available_years) = Intersection
             /\ \A i, j \in 1..Len(available_years) :
                    i < j => available_years[i] < available_years[j]
             /\ canopy_dataset.years \subseteq Intersection
             /\ SeqSet(aggregated) \subseteq Intersection
             /\ \A r \in tracts_with_analysis :
                    DOMAIN r.canopy_acres \subseteq Intersection
             /\ \A f \in exports :
                    f[1] = "canopy_map" => f[2] \in Intersection

C5_Witness ==
    /\ entry = "analyze_city_canopy"
    /\ pc = "raised"
    /\ args.start_year <= args.end_year
    /\ Intersection = {}
    /\ exc.type = "ValueError"
    /\ fetched = {}

(* C6: main rejects every invocation whose start year is not strictly less
   than its end year: the run ends in the usage error and no stage of the
   pipeline is executed. *)
C6_RejectsYears ==
    (entry = "main" /\ args.start_year >= args.end_year /\ pc # "main") =>
        /\ pc = "exit"
        /\ exc = SystemExit(<<"--start-year must be less than --end-year">>)
        /\ NothingDone
        /\ printed = <<>>

C6_Witness ==
    /\ entry = "main"
    /\ args.start_year = args.end_year
    /\ args.start_year \in NLCDYears
    /\ pc = "exit"

(* C7: when the (city name, state) lookup matches no place, get_city_canopy
   raises an error naming the city and the state, and nothing else is
   produced: no canopy raster is downloaded, no tracts are fetched, no
   statistics or change metrics are computed, no artifact is written. *)
LookupMiss ==
    /\ InPipeline
    /\ available_years # <<>>
    /\ pc # "get_city_canopy"
    /\ AnalyzeArgs.city_name \notin Places(AnalyzeArgs.state_abbr)

C7_LookupMiss ==
    LookupMiss =>
        /\ pc \in {"main_except", "raised"}
        /\ exc = ValueError(<<"City not found", AnalyzeArgs.city_name,
                              AnalyzeArgs.state_abbr>>)
        /\ fetched = {"places"}
        /\ city_boundary = {}
        /\ canopy_dataset = NoDataset
        /\ city_tracts = {}
        /\ tracts_with_stats = {}
        /\ aggregated = <<>>
        /\ temp_files = {}
        /\ tracts_with_analysis = {}
        /\ exports = {}

C7_Witness ==
    /\ entry = "main"
    /\ args.city = "atlantis"
    /\ pc = "raised"
    /\ exc = ValueError(<<"City not found", "Atlantis", "OR">>)
    /\ printed = <<exc.msg>>

(* C8: a failure of a year's aggregation step is not recovered: the run ends
   with that error raised, the failing year and the years after it are not
   aggregated, no change metrics are derived and nothing is exported; a
   table is returned only with the statistics of every year asked for; main
   prints the message and raises the error again. *)
AggregationFailed == exc.type = "RasterioIOError"

C8_FailureAborts ==
    /\ AggregationFailed =>
           /\ pc \in {"main_except", "raised"}
           /\ years_left # <<>>
           /\ Head(years_left) = exc.msg[2]
           /\ StatsInput.years = aggregated \o years_left
           /\ tracts_with_analysis = {}
           /\ exports = {}
           /\ (entry = "main" /\ pc = "raised") => printed = <<exc.msg>>
           /\ (entry # "main") => pc = "raised" /\ printed = <<>>
    /\ (/\ entry \in {"main", "analyze_city_canopy",
                      "calculate_tract_canopy_stats"}
        /\ pc \in {"change", "export", "main_complete", "done", "returned"})
           => /\ ~AggregationFailed
              /\ aggregated = StatsInput.years
              /\ \A r \in tracts_with_stats :
                     DOMAIN Column(r, "canopy_mean") = SeqSet(StatsInput.years)

C8_Witness ==
    /\ entry = "main"
    /\ pc = "raised"
    /\ AggregationFailed
    /\ Len(aggregated) >= 1
    /\ Len(years_left) >= 2
    /\ printed = <<exc.msg>>

(* C11: in every row returned by calculate_mean_canopy_change the acreage of
   the start year and of the end year is (mean / 100) * pixel count * 0.222,
   undefined when the mean is, and the acreage change is the end-year
   acreage minus the start-year acreage; a mean of 50 with 100 pixels gives
   exactly 11.1 acres. *)
IsAcreage(x, mean, pixels) ==
    IF IsNaN(mean) THEN IsNaN(x)
    ELSE /\ IsNum(x)
         /\ x.n * mean.d * 100 * 1000 = mean.n * pixels * 222 * x.d

C11_Acreage ==
    ChangeReturned =>
        \A r \in tracts_with_analysis :
            LET a0 == r.canopy_acres[args.start_year]
                a1 == r.canopy_acres[args.end_year]
            IN  /\ \A y \in {args.start_year, args.end_year} :
                       /\ IsAcreage(r.canopy_acres[y], r.canopy_mean[y],
                                    r.canopy_pixels[y])
                       /\ (r.canopy_mean[y] = Num(50) /\ r.canopy_pixels[y] = 100)
                              => r.canopy_acres[y] = Rat(111, 10)
                /\ IF IsNaN(a0) \/ IsNaN(a1) THEN IsNaN(r.canopy_acres_change)
                   ELSE IsDifference(r.canopy_acres_change, a1, a0)

C11_Witness ==
    /\ ChangeReturned
    /\ \E r \in tracts_with_analysis :
          /\ StartMean(r) = Num(50)
          /\ r.canopy_pixels[args.start_year] = 100
          /\ r.canopy_acres[args.start_year] = Rat(111, 10)
          /\ EndMean(r) = Rat(25, 2)
          /\ r.canopy_acres_change = Rat(-333, 40)

(* C12: the geometry sanitation is idempotent.  The table get_city_tracts
   returns is left unchanged by get_city_tracts again and by the checks of
   the two later stages, so in the pipeline calculate_tract_canopy_stats and
   calculate_mean_canopy_change remove no tract; and the table each stage
   check produces is left unchanged by that check. *)
StatsFiltered ==
    pc \in {"stats_loop", "stats_zonal", "change", "export",
            "main_complete", "done", "returned"}

ChangeFiltered == pc \in {"export", "main_complete", "done", "returned"}

C12_FilterIdempotent ==
    /\ InPipeline =>
           /\ get_city_tracts(city_tracts) = city_tracts
           /\ defensive_check(city_tracts) = city_tracts
           /\ final_safety_check(city_tracts) = city_tracts
    /\ (InPipeline /\ StatsFiltered) =>
           /\ GEOIDs(tracts_with_stats) = GEOIDs(city_tracts)
           /\ get_city_tracts(tracts_with_stats) = tracts_with_stats
    /\ (InPipeline /\ ChangeFiltered) =>
           /\ GEOIDs(tracts_with_analysis) = GEOIDs(tracts_with_stats)
           /\ get_city_tracts(tracts_with_analysis) = tracts_with_analysis
    /\ defensive_check(tracts_with_stats) = tracts_with_stats
    /\ final_safety_check(tracts_with_stats) = tracts_with_stats
    /\ final_safety_check(tracts_with_analysis) = tracts_with_analysis
    /\ defensive_check(tracts_with_analysis) = tracts_with_analysis

C12_Witness ==
    /\ InPipeline
    /\ ChangeFiltered
    /\ Cardinality(city_tracts) = 2
    /\ GEOIDs(tracts_with_analysis) = GEOIDs(city_tracts)
    /\ final_safety_check(tracts_with_analysis) = tracts_with_analysis

(* C13: for every tract and every year calculate_tract_canopy_stats has
   aggregated, a tract in which the aggregation found no valid cell has an
   undefined mean, min, max and std and a pixel count of zero, never a number
   in place of a statistic; a tract with valid cells has its statistics and
   the number of its cells. *)
StatNames == {"canopy_mean", "canopy_min", "canopy_max", "canopy_std"}

C13_NoCellStats ==
    \A r \in tracts_with_stats :
        \A year \in DOMAIN Column(r, "canopy_mean") :
            IF r.cells = 0
            THEN /\ \A name \in StatNames : IsNaN(r[name][year])
                 /\ r.canopy_pixels[year] = 0
            ELSE /\ \A name \in StatNames : IsNum(r[name][year])
                 /\ r.canopy_pixels[year] = r.cells

C13_Witness ==
    /\ pc \in {"returned", "change"}
    /\ aggregated # <<>>
    /\ \E r \in tracts_with_stats :
          /\ r.cells = 0
          /\ \A year \in SeqSet(aggregated) :
                /\ IsNaN(r.canopy_mean[year])
                /\ IsNaN(r.canopy_std[year])
                /\ r.canopy_pixels[year] = 0
    /\ \E r \in tracts_with_stats : r.cells > 0

(* C14: after a successful run with export enabled the artifacts hold exactly
   one HTML canopy map for each analysed year and none for another year, and
   exactly one HTML change map, whose legend gives, for each change category
   that has tracts, the number of those tracts; with export disabled, and
   before the export step, no artifact is written. *)
Succeeded == InPipeline /\ pc \in {"main_complete", "done", "returned"}

CanopyMaps == {f \in exports : f[1] = "canopy_map"}

ChangeMaps == {f \in exports : f[1] = "canopy_change_map"}

TractsIn(category) ==
    Cardinality({r \in tracts_with_analysis : r.change_category = category})

C14_ExportArtifacts ==
    /\ (Succeeded /\ AnalyzeArgs.export) =>
           /\ CanopyMaps = {<<"canopy_map", y, "html">> : y \in Intersection}
           /\ Cardinality(CanopyMaps) = Len(available_years)
           /\ Cardinality(ChangeMaps) = 1
           /\ \A f \in ChangeMaps :
                 /\ f[4] = "html"
                 /\ \A entry_ \in f[5] :
                       /\ entry_[1] \in Labels
                       /\ entry_[2] = TractsIn(entry_[1])
                 /\ \A category \in Labels :
                       TractsIn(category) > 0 =>
                           <<category, TractsIn(category)>> \in f[5]
    /\ ~(Succeeded /\ AnalyzeArgs.export) => exports = {}

C14_Witness ==
    /\ Succeeded
    /\ AnalyzeArgs.export
    /\ Len(available_years) = 3
    /\ Cardinality(CanopyMaps) = 3
    /\ \E f \in ChangeMaps : Cardinality(f[5]) = 2

(* C15: whenever analyze_city_canopy reaches the change derivation for a
   request with start_year < end_year, the first and the last analysed year,
   which it passes to calculate_mean_canopy_change, are distinct with the
   first below the last.  The code does not ensure it: a request that
   overlaps 2011..2021 in one year alone (2021..2022, 2010..2011) passes
   that year twice. *)
C15_DistinctYears ==
    (InPipeline /\ pc = "change"
        /\ AnalyzeArgs.start_year < AnalyzeArgs.end_year) =>
        available_years[1] < available_years[Len(available_years)]

=============================================================================
